---- MODULE Spec2Model ----
(***************************************************************************)
(* Model of the two S3 uploader nodes:                                     *)
(*   SaveImageToS3.save_images   (src/nodes/save_image_url_node.py)        *)
(*   SaveVideoToS3.save_video    (src/nodes/save_video_url_node.py)        *)
(* A behaviour is one call made by the host to one of the two nodes.  The  *)
(* call is followed statement by statement (pc is the position inside the  *)
(* method).  The codec libraries and the object store are the environment: *)
(* whether put_object raises, whether the video writer opens and whether   *)
(* the temporary file reads back are chosen nondeterministically.          *)
(* Strings are sequences of one-character strings, so that the S3 key is   *)
(* really built by concatenation and can be inspected character by         *)
(* character.  It is assumed that boto3.client(...) itself and json.dumps  *)
(* of the hidden inputs do not raise.                                      *)
(***************************************************************************)
EXTENDS Integers, Sequences, FiniteSets, TLC

VARIABLES
    comp,           \* which node the host called: "none", "image", "video"
    pc,             \* position inside the called method
    images, folder, filename, prompt, extra_pnginfo,   \* inputs of both nodes
    fps, lossless, method, quality,                    \* inputs of save_video
    batch_number,   \* save_images: loop index of enumerate(images)
    image_bytes,    \* save_images: PNG bytes of the current item
    results,        \* save_images: the results list
    frames_all,     \* save_video: converted frames
    preset, crf,    \* save_video: derived encoder parameters
    tmp_exists,     \* save_video: the temporary file is on disk
    tmp_created,    \* history: the temporary file was created by this call
    tmp_frames,     \* save_video: frames the writer has taken so far
    exc,            \* save_video: exception pending inside try/finally
    video_bytes,    \* save_video: bytes read back from the temporary file
    bucket,         \* the object store: key -> stored object
    bucket0,        \* history: the object store when the call started
    puts,           \* history: every put_object attempt, in order
    ret,            \* value returned to the host
    err             \* exception that left the call

inVars  == <<images, folder, filename, prompt, extra_pnginfo, fps, lossless, method, quality>>
imgVars == <<batch_number, image_bytes, results>>
vidVars == <<frames_all, preset, crf, tmp_exists, tmp_created, tmp_frames, exc, video_bytes>>
s3Vars  == <<bucket, puts>>
vars    == <<comp, pc, inVars, imgVars, vidVars, s3Vars, bucket0, ret, err>>

None == "None"

-----------------------------------------------------------------------------
(* Bounds and input domains *)

MaxBatch == 2
QPad == 3

QualityMin == 0
QualityMax == 100
QualityScale == 100
CrfMax == 51
CompressLevel == 4
DefaultFps == 6
DummyChannels == 3
DummySide == 64

T1 == [px |-> "a", shape |-> <<2, 2, 3>>]
T2 == [px |-> "b", shape |-> <<3, 2, 2>>]
TBad == [px |-> "c", shape |-> <<2, 2, 2, 2>>]
Tensors == {T1, T2, TBad}
Batches == UNION {[1..n -> Tensors] : n \in 0..MaxBatch}

Folders == {<<>>, <<"d">>, <<"d", "/">>}
Filenames == {<<"f">>, <<"/", "f">>}
Prompts == {None, "cat"}
NoneDict == [is_none |-> TRUE, items |-> <<>>]
Extras == {NoneDict, [is_none |-> FALSE, items |-> << <<"workflow", "w">> >>]}
Methods == {"default", "fastest", "slowest", "other"}
Qualities == {QualityMin, 50, QualityMax}
AllQualities == (QualityMin - QPad)..(QualityMax + QPad)

Endpoint == <<"e">>
BucketName == <<"b">>
Slash == <<"/">>

-----------------------------------------------------------------------------
(* Pure helpers of both nodes *)

\* arr = 255.0 * t.cpu().numpy(); clip; astype(uint8); (C,H,W) -> (H,W,C)
ToArray(t) ==
    [px |-> <<"u8", t.px>>,
     shape |-> IF Len(t.shape) = 3 /\ t.shape[1] \in {1, 3, 4}
               THEN <<t.shape[2], t.shape[3], t.shape[1]>>
               ELSE t.shape]

\* Image.fromarray accepts a 2-D array or a 3-D array with 2, 3 or 4 channels
FromArrayOK(arr) ==
    \/ Len(arr.shape) = 2
    \/ Len(arr.shape) = 3 /\ arr.shape[3] \in {2, 3, 4}

JsonDumps(v) == <<"json", v>>

\* metadata = None, or a PngInfo holding the text chunks in the order added
PngInfo(p, e) ==
    IF p = None /\ e.is_none THEN [is_none |-> TRUE, chunks |-> <<>>]
    ELSE [is_none |-> FALSE,
          chunks |-> (IF p = None THEN <<>> ELSE << <<"prompt", JsonDumps(p)>> >>)
                     \o [i \in 1..Len(e.items) |->
                            <<e.items[i][1], JsonDumps(e.items[i][2])>>]]

PngBytes(arr, info) ==
    [format |-> "PNG", compress_level |-> CompressLevel, array |-> arr, text |-> info]

S3KeyNoSeparator(fo, fi) == fo \o fi

\* s3_key = f"{folder}/{filename}"
S3Key(fo, fi) == fo \o Slash \o fi

UploadUrl(key) == Endpoint \o Slash \o BucketName \o Slash \o key

AllKeys == {fo \o Slash \o fi : fo \in Folders, fi \in Filenames}
Absent == [format |-> "absent"]
OldObject == [format |-> "old"]
EmptyBucket == [k \in AllKeys |-> Absent]
PriorBuckets == {EmptyBucket, [EmptyBucket EXCEPT ![<<"d", "/", "f">>] = OldObject]}

\* put_object: the object is stored iff the call does not raise
PutObject(b, key, body, ok) ==
    IF ok /\ key \in DOMAIN b THEN [b EXCEPT ![key] = body] ELSE b

-----------------------------------------------------------------------------
(* State after construction: no call in progress; the store holds whatever *)
(* earlier calls left in it.                                               *)

Init ==
    /\ comp = "none" /\ pc = "idle"
    /\ images = None /\ folder = None /\ filename = None
    /\ prompt = None /\ extra_pnginfo = NoneDict
    /\ fps = None /\ lossless = None /\ method = None /\ quality = None
    /\ batch_number = None /\ image_bytes = None /\ results = None
    /\ frames_all = None /\ preset = None /\ crf = None
    /\ tmp_exists = FALSE /\ tmp_created = FALSE /\ tmp_frames = <<>>
    /\ exc = "none" /\ video_bytes = None
    /\ bucket \in PriorBuckets /\ bucket0 = bucket /\ puts = <<>>
    /\ ret = None /\ err = "none"

-----------------------------------------------------------------------------
(* SaveImageToS3.save_images *)

ImgItemFirst(imgs, n) == imgs[1]

\* the item enumerate(images) yields at index n (0-based)
ImgItem(imgs, n) == imgs[n + 1]

ImgNextIndexBreak(ok, n, len) == IF ok THEN n + 1 ELSE len

\* the loop goes on to the next item whether or not the upload raised
ImgNextIndex(ok, n, len) == n + 1

ImgUploadErrorPcRaise(next) == "raised"

\* except Exception: the upload error is recorded and the loop continues
ImgUploadErrorPc(next) == next

ImgReturnValueLast(imgs) == imgs[Len(imgs)]

\* return (images[0],)
ImgReturnValue(imgs) == imgs[1]

SuccessRecord(fi, key) ==
    [filename |-> fi, upload_url |-> UploadUrl(key), status |-> "success"]

ErrorRecord(fi) == [filename |-> fi, error |-> "upload error"]

\* the host calls save_images: results = [], the client is built
ImgCall ==
    /\ pc = "idle"
    /\ \E im \in Batches, fo \in Folders, fi \in Filenames, p \in Prompts, e \in Extras :
          /\ images' = im /\ folder' = fo /\ filename' = fi
          /\ prompt' = p /\ extra_pnginfo' = e
    /\ comp' = "image" /\ pc' = "img_loop"
    /\ batch_number' = 0 /\ results' = <<>>
    /\ bucket0' = bucket
    /\ UNCHANGED <<fps, lossless, method, quality, image_bytes, vidVars, s3Vars, ret, err>>

\* one loop iteration up to the PNG bytes; Image.fromarray raises on a
\* malformed array and nothing catches it
ImgEncode ==
    /\ pc = "img_loop" /\ batch_number < Len(images)
    /\ LET arr == ToArray(ImgItem(images, batch_number)) IN
         IF FromArrayOK(arr)
         THEN /\ image_bytes' = PngBytes(arr, PngInfo(prompt, extra_pnginfo))
              /\ pc' = "img_put"
              /\ err' = err
         ELSE /\ pc' = "raised" /\ err' = "encoding"
              /\ image_bytes' = image_bytes
    /\ UNCHANGED <<comp, inVars, batch_number, results, vidVars, s3Vars, bucket0, ret>>

\* the try/except around put_object, and the step to the next item
ImgPut ==
    /\ pc = "img_put"
    /\ \E ok \in BOOLEAN :
         LET key == S3Key(folder, filename)
             nextpc == IF ok THEN "img_loop" ELSE ImgUploadErrorPc("img_loop")
         IN /\ puts' = Append(puts, [Bucket |-> BucketName, Key |-> key,
                                     Body |-> image_bytes, ok |-> ok])
            /\ bucket' = PutObject(bucket, key, image_bytes, ok)
            /\ results' = Append(results, IF ok THEN SuccessRecord(filename, key)
                                                ELSE ErrorRecord(filename))
            /\ pc' = nextpc
            /\ err' = IF nextpc = "raised" THEN "upload" ELSE err
            /\ batch_number' = ImgNextIndex(ok, batch_number, Len(images))
    /\ UNCHANGED <<comp, inVars, image_bytes, vidVars, bucket0, ret>>

\* after the loop: return (images[0],), an IndexError on an empty batch
ImgReturn ==
    /\ pc = "img_loop" /\ batch_number >= Len(images)
    /\ IF Len(images) = 0
       THEN pc' = "raised" /\ err' = "index" /\ ret' = ret
       ELSE pc' = "done" /\ ret' = ImgReturnValue(images) /\ err' = err
    /\ UNCHANGED <<comp, inVars, imgVars, vidVars, s3Vars, bucket0>>

ImageNext == ImgCall \/ ImgEncode \/ ImgPut \/ ImgReturn

-----------------------------------------------------------------------------
(* SaveVideoToS3.save_video *)

\* self.ffmpeg_presets
FfmpegPresets ==
    [m \in {"default", "fastest", "slowest"} |->
        CASE m = "default" -> "medium"
          [] m = "fastest" -> "ultrafast"
          [] m = "slowest" -> "veryslow"]

\* self.ffmpeg_presets.get(method, "medium")
Preset(m) == IF m \in DOMAIN FfmpegPresets THEN FfmpegPresets[m] ELSE "medium"

\* int(x) of Python truncates toward zero
TruncDiv(a, b) == IF a >= 0 THEN a \div b ELSE -((-a) \div b)

Min(a, b) == IF a <= b THEN a ELSE b
Max(a, b) == IF a >= b THEN a ELSE b

CrfIgnoresLossless(l, q) ==
    Max(0, Min(CrfMax, CrfMax - TruncDiv(q * CrfMax, QualityScale)))

CrfUnclamped(l, q) ==
    IF l THEN 0 ELSE CrfMax - TruncDiv(q * CrfMax, QualityScale)

\* crf = 0 if lossless, else 51 - int(quality * 51 / 100) clamped to 0..51
Crf(l, q) ==
    IF l THEN 0
    ELSE Max(0, Min(CrfMax, CrfMax - TruncDiv(q * CrfMax, QualityScale)))

\* writer.append_data takes a 2-D or 3-D frame of the size of the first one
AppendOK(frame, written) ==
    /\ Len(frame.shape) \in {2, 3}
    /\ Len(frame.shape) = 3 => frame.shape[3] \in 1..4
    /\ written # <<>> => /\ frame.shape[1] = written[1].shape[1]
                         /\ frame.shape[2] = written[1].shape[2]

EmptyBytes == [format |-> "empty"]

\* what the closed writer leaves in the file: nothing when no frame was given
Mp4Bytes(frames, f, pre, c) ==
    IF frames = <<>> THEN EmptyBytes
    ELSE [format |-> "MP4", codec |-> "libx264", pixelformat |-> "yuv420p",
          fps |-> f, preset |-> pre, crf |-> c, frames |-> frames]

\* metadata[k] = v on a dict kept as a sequence of <<key, value>> pairs
DictSet(d, k, v) ==
    IF \E i \in 1..Len(d) : d[i][1] = k
    THEN [i \in 1..Len(d) |-> IF d[i][1] = k THEN <<k, v>> ELSE d[i]]
    ELSE Append(d, <<k, v>>)

RECURSIVE DictSetAll(_, _)
DictSetAll(d, its) ==
    IF its = <<>> THEN d
    ELSE DictSetAll(DictSet(d, its[1][1], JsonDumps(its[1][2])), Tail(its))

\* the Metadata argument of put_object
VideoMetadata(p, e) ==
    DictSetAll(IF p = None THEN <<>> ELSE << <<"prompt", JsonDumps(p)>> >>,
               IF e.is_none THEN <<>> ELSE e.items)

DummyChannelLast == [px |-> "zeros", shape |-> <<DummySide, DummySide, DummyChannels>>]

\* torch.zeros((3, 64, 64), dtype=torch.float32)
Dummy == [px |-> "zeros", shape |-> <<DummyChannels, DummySide, DummySide>>]

\* return (images[0],) if len(images) > 0 else (dummy,)
VidReturnValue(imgs) == IF Len(imgs) > 0 THEN imgs[1] ELSE Dummy

RemoveTmpOnSuccessOnly(exists, e) == IF e = "none" THEN FALSE ELSE exists

\* finally: if os.path.exists(temp_filename): os.remove(temp_filename)
RemoveTmp(exists, e) == IF exists THEN FALSE ELSE exists

VidUploadErrorPcRaise(next) == "raised"

\* except Exception: the upload error is printed and the method goes on
VidUploadErrorPc(next) == next

\* the host calls save_video with a quality out of Q: the client is built
VidCallWith(Q, B) ==
    /\ pc = "idle"
    /\ \E im \in B, fo \in Folders, fi \in Filenames, p \in Prompts, e \in Extras :
          /\ images' = im /\ folder' = fo /\ filename' = fi
          /\ prompt' = p /\ extra_pnginfo' = e
    /\ \E l \in BOOLEAN, q \in Q, m \in Methods :
          lossless' = l /\ quality' = q /\ method' = m
    /\ fps' = DefaultFps
    /\ comp' = "video" /\ pc' = "vid_prepare"
    /\ bucket0' = bucket
    /\ UNCHANGED <<imgVars, vidVars, s3Vars, ret, err>>

VidCall == VidCallWith(Qualities, Batches)

\* frames_all, preset, crf and the NamedTemporaryFile(delete=False)
VidPrepare ==
    /\ pc = "vid_prepare"
    /\ frames_all' = [i \in 1..Len(images) |-> ToArray(images[i])]
    /\ preset' = Preset(method)
    /\ crf' = Crf(lossless, quality)
    /\ tmp_exists' = TRUE /\ tmp_created' = TRUE
    /\ pc' = "vid_open"
    /\ UNCHANGED <<comp, inVars, imgVars, tmp_frames, exc, video_bytes, s3Vars, bucket0, ret, err>>

\* try: imageio.get_writer(...) opens, or raises
VidOpenWriter ==
    /\ pc = "vid_open"
    /\ \E ok \in BOOLEAN :
         IF ok THEN pc' = "vid_append" /\ tmp_frames' = <<>> /\ exc' = exc
               ELSE pc' = "vid_finally" /\ exc' = "encoding" /\ tmp_frames' = tmp_frames
    /\ UNCHANGED <<comp, inVars, imgVars, frames_all, preset, crf, tmp_exists, tmp_created,
                   video_bytes, s3Vars, bucket0, ret, err>>

\* writer.append_data(frame) for the next frame, or raises on a bad frame
VidAppend ==
    /\ pc = "vid_append" /\ Len(tmp_frames) < Len(frames_all)
    /\ LET frame == frames_all[Len(tmp_frames) + 1] IN
         IF AppendOK(frame, tmp_frames)
         THEN tmp_frames' = Append(tmp_frames, frame) /\ pc' = pc /\ exc' = exc
         ELSE pc' = "vid_finally" /\ exc' = "encoding" /\ tmp_frames' = tmp_frames
    /\ UNCHANGED <<comp, inVars, imgVars, frames_all, preset, crf, tmp_exists, tmp_created,
                   video_bytes, s3Vars, bucket0, ret, err>>

\* the writer closes and the file is read back, or open()/read() raises
VidRead ==
    /\ pc = "vid_append" /\ Len(tmp_frames) = Len(frames_all)
    /\ \E ok \in BOOLEAN :
         IF ok THEN /\ video_bytes' = Mp4Bytes(tmp_frames, fps, preset, crf)
                    /\ exc' = exc
               ELSE /\ exc' = "encoding"
                    /\ video_bytes' = video_bytes
    /\ pc' = "vid_finally"
    /\ UNCHANGED <<comp, inVars, imgVars, frames_all, preset, crf, tmp_exists, tmp_created,
                   tmp_frames, s3Vars, bucket0, ret, err>>

\* finally: the temporary file is removed; a pending exception leaves the call
VidFinally ==
    /\ pc = "vid_finally"
    /\ tmp_exists' = RemoveTmp(tmp_exists, exc)
    /\ IF exc = "none" THEN pc' = "vid_put" /\ err' = err
                       ELSE pc' = "raised" /\ err' = exc
    /\ UNCHANGED <<comp, inVars, imgVars, frames_all, preset, crf, tmp_created, tmp_frames,
                   exc, video_bytes, s3Vars, bucket0, ret>>

\* the try/except around put_object
VidPut ==
    /\ pc = "vid_put"
    /\ \E ok \in BOOLEAN :
         LET key == S3Key(folder, filename)
             nextpc == IF ok THEN "vid_return" ELSE VidUploadErrorPc("vid_return")
         IN /\ puts' = Append(puts, [Bucket |-> BucketName, Key |-> key,
                                     Body |-> video_bytes,
                                     Metadata |-> VideoMetadata(prompt, extra_pnginfo),
                                     ok |-> ok])
            /\ bucket' = PutObject(bucket, key, video_bytes, ok)
            /\ pc' = nextpc
            /\ err' = IF nextpc = "raised" THEN "upload" ELSE err
    /\ UNCHANGED <<comp, inVars, imgVars, vidVars, bucket0, ret>>

\* the passthrough frame, or the placeholder for an empty input
VidReturn ==
    /\ pc = "vid_return"
    /\ ret' = VidReturnValue(images)
    /\ pc' = "done"
    /\ UNCHANGED <<comp, inVars, imgVars, vidVars, s3Vars, bucket0, err>>

VideoNext ==
    VidCall \/ VidPrepare \/ VidOpenWriter \/ VidAppend \/ VidRead \/ VidFinally
    \/ VidPut \/ VidReturn

-----------------------------------------------------------------------------
(* Specifications *)

Next == ImageNext \/ VideoNext

\* one call of either node
Spec == Init /\ [][Next]_vars

\* save_video up to the derived encoder parameters, over every quality
VidCallAnyQuality == VidCallWith(AllQualities, {<<>>, <<T1>>})

NextCrf == VidCallAnyQuality \/ VidPrepare

SpecCrf == Init /\ [][NextCrf]_vars

-----------------------------------------------------------------------------
(* Properties *)

Terminated == pc \in {"done", "raised"}

\* a tensor the PNG path can encode
Encodable(t) == FromArrayOK(ToArray(t))

AllEncodable(imgs) == \A i \in 1..Len(imgs) : Encodable(imgs[i])

ExpectedPng(i) == PngBytes(ToArray(images[i]), PngInfo(prompt, extra_pnginfo))

ExpectedKey == folder \o <<"/">> \o filename

IsSuccess(r) == "status" \in DOMAIN r /\ r.status = "success"

EndsWithSlash(str) == Len(str) > 0 /\ str[Len(str)] = "/"

StartsWithSlash(str) == Len(str) > 0 /\ str[1] = "/"

\* in key, the "/" written after the folder part has no "/" next to it
SingleSeparator(fo, key) ==
    /\ Len(key) > Len(fo) /\ key[Len(fo) + 1] = "/"
    /\ Len(fo) > 0 => key[Len(fo)] # "/"
    /\ Len(key) > Len(fo) + 1 => key[Len(fo) + 2] # "/"

\* C1: save_images, called with a non-empty batch of encodable tensors, ends
\* by returning images[0] whatever each put_object did.
C1_ReturnsFirstImage ==
    (comp = "image" /\ Terminated /\ images # <<>> /\ AllEncodable(images))
        => (pc = "done" /\ err = "none" /\ ret = images[1])

\* C1 witness: a batch of two different tensors, both uploads failed, first returned
C1_Witness ==
    /\ comp = "image" /\ pc = "done"
    /\ Len(images) = 2 /\ images[1] # images[2]
    /\ Len(puts) = 2 /\ ~puts[1].ok /\ ~puts[2].ok
    /\ ret = images[1]

\* C2: in save_video, once put_object has raised, the call does not raise: it
\* goes on to return images[0], or the placeholder for an empty input.
C2_UploadFailureDoesNotRaise ==
    (comp = "video" /\ Len(puts) > 0 /\ ~puts[1].ok)
        => /\ pc \in {"vid_return", "done"}
           /\ err = "none"
           /\ pc = "done" => ret = (IF Len(images) > 0 THEN images[1]
                                    ELSE [px |-> "zeros", shape |-> <<3, 64, 64>>])

\* C2 witness: save_video returned its first frame after a failed upload
C2_Witness ==
    /\ comp = "video" /\ pc = "done"
    /\ Len(puts) = 1 /\ ~puts[1].ok
    /\ Len(images) = 2 /\ ret = images[1]

\* C3: save_video called with an empty frame sequence never fails on
\* images[0]: no frame is appended, and when the writer opens and the file
\* reads back, one upload is attempted and the zero-filled (3, 64, 64)
\* placeholder is returned.
C3_EmptyInputPlaceholder ==
    (comp = "video" /\ Terminated /\ images = <<>>)
        => /\ err # "index"
           /\ frames_all = <<>>
           /\ exc = "none" =>
                /\ pc = "done" /\ err = "none"
                /\ Len(puts) = 1 /\ puts[1].Body = [format |-> "empty"]
                /\ ret = [px |-> "zeros", shape |-> <<3, 64, 64>>]

\* C3 witness: empty input, upload attempted, placeholder returned
C3_Witness ==
    /\ comp = "video" /\ pc = "done" /\ images = <<>>
    /\ Len(puts) = 1
    /\ ret.shape = <<3, 64, 64>>

\* C4: once save_video has created the temporary file, the file is gone
\* when the call returns or raises, and it is gone before put_object is
\* attempted.
C4_TempFileRemoved ==
    (comp = "video" /\ tmp_created)
        => /\ Terminated => ~tmp_exists
           /\ (pc \in {"vid_put", "vid_return"} \/ Len(puts) > 0) => ~tmp_exists

\* C4 witness: append_data raised on the second frame and the file is removed
C4_Witness ==
    /\ comp = "video" /\ pc = "raised" /\ err = "encoding"
    /\ tmp_created /\ ~tmp_exists
    /\ images = <<T1, TBad>> /\ tmp_frames = <<ToArray(T1)>>

\* C5 as stated: every Key given to put_object is folder + "/" + filename and
\* has a single separator between the two parts.
C5_Original ==
    \A i \in 1..Len(puts) :
        /\ puts[i].Key = ExpectedKey
        /\ SingleSeparator(folder, puts[i].Key)

\* C5 amended: every Key given to put_object is exactly folder + "/" +
\* filename; the separator between the parts is single exactly when the
\* folder does not end in "/" and the filename does not start with "/".
C5_KeyIsFolderSlashFilename ==
    \A i \in 1..Len(puts) :
        /\ puts[i].Key = ExpectedKey
        /\ SingleSeparator(folder, puts[i].Key)
             <=> (~EndsWithSlash(folder) /\ ~StartsWithSlash(filename))

\* C5 witness: an empty folder gives the key "/f", with one separator
C5_Witness ==
    /\ Len(puts) > 0 /\ folder = <<>> /\ filename = <<"f">>
    /\ puts[1].Key = <<"/", "f">>
    /\ SingleSeparator(folder, puts[1].Key)

\* C6: with lossless true the CRF derived by save_video is 0 for every
\* quality and every method.
C6_LosslessCrfZero ==
    (comp = "video" /\ pc = "vid_open" /\ lossless) => crf = 0

\* C6 witness: lossless with quality 0, which alone would give CRF 51
C6_Witness ==
    /\ comp = "video" /\ pc = "vid_open"
    /\ lossless /\ quality = 0 /\ method = "other" /\ crf = 0

\* C7: with lossless false the derived CRF lies in 0..51 for every integer
\* quality, is 0 for quality 100 and 51 for quality 0.
C7_CrfRange ==
    (comp = "video" /\ pc = "vid_open" /\ ~lossless)
        => /\ crf \in 0..51
           /\ quality = 100 => crf = 0
           /\ quality = 0 => crf = 51

\* C7 witness: quality 102 would give -1 and is clamped to 0
C7_Witness ==
    /\ comp = "video" /\ pc = "vid_open"
    /\ ~lossless /\ quality = 102 /\ crf = 0

\* C8: for a batch of n encodable images save_images makes exactly n
\* put_object attempts, the i-th with the PNG of item i, and ends with n
\* result records, the i-th a success record iff the i-th upload succeeded.
C8_OneAttemptPerItem ==
    (comp = "image" /\ Terminated /\ AllEncodable(images))
        => /\ Len(puts) = Len(images)
           /\ Len(results) = Len(images)
           /\ \A i \in 1..Len(images) :
                /\ puts[i].Body = ExpectedPng(i)
                /\ IsSuccess(results[i]) <=> puts[i].ok
                /\ ~puts[i].ok => "error" \in DOMAIN results[i]

\* C8 witness: the first upload failed and the second item was still uploaded
C8_Witness ==
    /\ comp = "image" /\ pc = "done" /\ Len(images) = 2
    /\ Len(puts) = 2 /\ ~puts[1].ok /\ puts[2].ok
    /\ ~IsSuccess(results[1]) /\ IsSuccess(results[2])

\* some encoding step of the call raised
EncodingFailed ==
    IF comp = "image" THEN ~AllEncodable(images) ELSE exc = "encoding"

\* C9 as stated: for both nodes and every input batch, a finished call has
\* raised iff an encoding step failed.
C9_Original ==
    (comp # "none" /\ Terminated) => (pc = "raised" <=> EncodingFailed)

\* C9 amended: a finished call has raised iff an encoding step failed, or
\* the call was save_images with an empty batch (IndexError at images[0]);
\* no upload failure ever leaves the call.
C9_RaisesOnlyOnEncoding ==
    (comp # "none" /\ Terminated)
        => /\ pc = "raised" <=> (EncodingFailed \/ (comp = "image" /\ images = <<>>))
           /\ err \in {"none", "encoding", "index"}
           /\ err = "index" <=> (comp = "image" /\ images = <<>>)

\* C9 witness: save_images returned normally although every upload failed
C9_Witness ==
    /\ comp = "image" /\ pc = "done" /\ err = "none"
    /\ Len(images) = 2 /\ Len(puts) = 2
    /\ \A i \in 1..2 : ~puts[i].ok

\* C10: after save_images every put went to the key folder/filename, the
\* object at that key is the PNG of the last item whose upload succeeded, or
\* the object that was there before if none did, and no other key changed.
C10_LastSuccessfulUploadWins ==
    (comp = "image" /\ Terminated)
        => LET succ == {i \in 1..Len(puts) : puts[i].ok}
               last == CHOOSE i \in succ : \A j \in succ : j <= i
           IN /\ \A i \in 1..Len(puts) : puts[i].Key = ExpectedKey
              /\ bucket[ExpectedKey] = (IF succ = {} THEN bucket0[ExpectedKey]
                                        ELSE ExpectedPng(last))
              /\ \A k \in DOMAIN bucket \ {ExpectedKey} : bucket[k] = bucket0[k]

\* C10 witness: two different items uploaded over an older object
C10_Witness ==
    /\ comp = "image" /\ pc = "done"
    /\ Len(images) = 2 /\ images[1] # images[2]
    /\ Len(puts) = 2 /\ puts[1].ok /\ puts[2].ok
    /\ bucket0[ExpectedKey] = OldObject
    /\ bucket[ExpectedKey] = ExpectedPng(2)

=============================================================================
